---- MODULE Spec2Model ----
(***************************************************************************)
(* The graph traversal traits of lib.rs, nav_types.rs and mut_types.rs as  *)
(* a state machine of one client working on one graph.                     *)
(*                                                                         *)
(* The traits carry their contract in their signatures: the receiver of a  *)
(* method (&self, &mut self, self) and the lifetime of what it returns     *)
(* ('a, the borrow of the graph, or the elided lifetime of the receiver).  *)
(* The model keeps the handles and references the client holds and the     *)
(* borrows they stand for.  Every operation is an attempt whose outcome is *)
(* recorded in `last`: "ok", or the rejection the borrow rules give it     *)
(* (a rejected attempt changes nothing else; it is the program rustc       *)
(* refuses):                                                               *)
(*   ExclusivityViolation   a borrow of the graph that conflicts with a    *)
(*                          live borrow of the graph                       *)
(*   BorrowError            a use of a handle that conflicts with a live   *)
(*                          borrow of that handle                          *)
(*   InvalidHandle          a use of a handle that was moved out of        *)
(*                                                                         *)
(* Handles and references are kept as bags of values: two handles of the   *)
(* same shape on the same vertex are told apart by no operation.           *)
(***************************************************************************)
EXTENDS Integers, Sequences, FiniteSets, Bags

\* Bounds of the model.
NumVertices == 3
MaxEdges == 2
MaxHandles == 2
MaxRefs == 2
MaxVal == 1

Vertices == 1..NumVertices
Pairs == Vertices \X Vertices
Values == 0..MaxVal

VARIABLES
    edges,      \* the graph's edges, <<source, target>>: fixed, no trait edits structure
    edata,      \* GraphTypes::EdgeData of every edge
    vdata,      \* GraphTypes::VertexData of every vertex
    handles,    \* the bag of handles the client holds
    refs,       \* the bag of payload references the client holds
    last        \* the last operation attempted and its outcome

vars == <<edges, edata, vdata, handles, refs, last>>

----------------------------------------------------------------------------
\* Handles and references.

NavKinds == {"NavVertex", "NavEdge", "NavIn", "NavOut", "NavIter"}
MutKinds == {"MutVertex", "MutIn", "MutOut"}

NoEdge == <<0, 0>>

\* No handle: what an operation that returns none is recorded to return.
NoHandle ==
    [st |-> "none", kind |-> "none", v |-> 0, e |-> NoEdge, pos |-> 0, dir |-> "none"]

\* A live handle.  v: the vertex of a Vertex, a collection or an iterator, and for
\* an Edge the vertex whose collection yielded it (dir says which collection);
\* e: the edge of an Edge; pos: the number of edges an iterator has yielded.
Handle(kind, v, e, dir) ==
    [st |-> "live", kind |-> kind, v |-> v, e |-> e, pos |-> 0, dir |-> dir]

\* A reference.  scope: "graph" when its lifetime is 'a, "handle" when it is the
\* borrow of the handle `from` it came from (NoHandle for scope "graph"); tv, te:
\* the vertex or edge whose payload it points at; seen: the payload it showed when
\* it was made or last written through.
Ref(scope, from, mut, tv, te, seen) ==
    [scope |-> scope, from |-> from, mut |-> mut, tv |-> tv, te |-> te, seen |-> seen]

Held == BagToSet(handles)
HeldRefs == BagToSet(refs)
Add(B, x) == B (+) SetToBag({x})
Remove(B, x) == B (-) SetToBag({x})

LiveHandles == {h \in Held : h.st = "live"}
RoomForHandle == BagCardinality(handles) < MaxHandles
RoomForRef == BagCardinality(refs) < MaxRefs

\* The outcome of an attempt: op on the handle or reference h ended res, made the
\* handle or reference out and returned n or b.
Outcome(op, h, res, out, n, b) ==
    [op |-> op, h |-> h, res |-> res, out |-> out, n |-> n, b |-> b]

----------------------------------------------------------------------------
\* The borrows of the graph.

\* Navigator handles are backed by a read-only borrow of the graph, and so is
\* every reference of lifetime 'a they hand out.
SharedBorrowed ==
    \/ \E h \in LiveHandles : h.kind \in NavKinds
    \/ \E r \in HeldRefs : r.scope = "graph"

\* Editor handles are backed by a mutable borrow of the graph.
MutBorrowed == \E h \in LiveHandles : h.kind \in MutKinds

\* A read-only borrow of the graph may be taken beside other read-only borrows.
CanBorrowShared_Always == TRUE
CanBorrowShared == ~MutBorrowed

\* A mutable borrow of the graph may be taken beside no other borrow.
CanBorrowMut_IgnoringReaders == ~MutBorrowed
CanBorrowMut == ~MutBorrowed /\ ~SharedBorrowed

\* The references that borrow the handle h.
BorrowsOf(h) == {r \in HeldRefs : r.scope = "handle" /\ r.from = h}

MutBorrowsOf(h) == {r \in BorrowsOf(h) : r.mut}

----------------------------------------------------------------------------
\* The graph behind the handles.

Less(a, b) == a[1] < b[1] \/ (a[1] = b[1] /\ a[2] < b[2])

\* The edges of S in the order an iteration yields them.
RECURSIVE SeqOf(_)
SeqOf(S) ==
    IF S = {} THEN <<>>
    ELSE LET m == CHOOSE x \in S : \A y \in S : x = y \/ Less(x, y)
         IN <<m>> \o SeqOf(S \ {m})

OutEdgesOf(v) == {e \in edges : e[1] = v}
InEdgesOf(v) == {e \in edges : e[2] = v}

\* The edges of the collection (or iterator) c, in iteration order.
EdgesOf(c) ==
    IF c.dir = "out" THEN SeqOf(OutEdgesOf(c.v)) ELSE SeqOf(InEdgesOf(c.v))

\* InEdgeCollection::len, OutEdgeCollection::len.
InEdgeCollection_len(c) == Cardinality(InEdgesOf(c.v))
OutEdgeCollection_len(c) == Cardinality(OutEdgesOf(c.v))

\* fn is_empty(&self) -> bool { self.len() == 0 }
InEdgeCollection_is_empty_Negated(c) == InEdgeCollection_len(c) /= 0
InEdgeCollection_is_empty(c) == InEdgeCollection_len(c) = 0
OutEdgeCollection_is_empty(c) == OutEdgeCollection_len(c) = 0

----------------------------------------------------------------------------
\* The graphs of at most MaxEdges edges, and those of them whose edges all lead
\* from a vertex to a later one.
Graphs == {E \in SUBSET Pairs : Cardinality(E) <= MaxEdges}
AcyclicGraphs == {E \in Graphs : \A e \in E : e[1] < e[2]}

\* The client holds nothing yet; the graph is one of G.
InitOn(G) ==
    /\ edges \in G
    /\ edata = [e \in edges |-> 0]
    /\ vdata = [v \in Vertices |-> 0]
    /\ handles = EmptyBag
    /\ refs = EmptyBag
    /\ last = Outcome("init", NoHandle, "ok", NoHandle, 0, FALSE)

\* Both families at work: the borrow rules read no edge, so the acyclic graphs do.
Init == InitOn(AcyclicGraphs)

\* The Navigator family at work on any graph.
InitNav == InitOn(Graphs)

----------------------------------------------------------------------------
\* Steps shared by the operations.

\* An attempt that is refused: nothing but the outcome changes.
Refuse(op, h, res) ==
    /\ last' = Outcome(op, h, res, NoHandle, 0, FALSE)
    /\ UNCHANGED <<edges, edata, vdata, handles, refs>>

\* An operation that returns a new handle.
Make(op, h, new) ==
    /\ RoomForHandle
    /\ handles' = Add(handles, new)
    /\ last' = Outcome(op, h, "ok", new, 0, FALSE)
    /\ UNCHANGED <<edges, edata, vdata, refs>>

\* An operation that returns a new reference.
Lend(op, h, new) ==
    /\ RoomForRef
    /\ refs' = Add(refs, new)
    /\ last' = Outcome(op, h, "ok", new, 0, FALSE)
    /\ UNCHANGED <<edges, edata, vdata, handles>>

\* An operation that returns a value.
Return(op, h, n, b) ==
    /\ last' = Outcome(op, h, "ok", NoHandle, n, b)
    /\ UNCHANGED <<edges, edata, vdata, handles, refs>>

----------------------------------------------------------------------------
\* The graph implementation's entry points: a first handle on vertex v.

\* A Navigator: takes a read-only borrow of the graph for 'a.
NewNavigator(v) ==
    IF CanBorrowShared
    THEN Make("new_nav", NoHandle, Handle("NavVertex", v, NoEdge, "none"))
    ELSE Refuse("new_nav", NoHandle, "ExclusivityViolation")

\* An Editor: takes a mutable borrow of the graph for 'a.
NewEditor_Unchecked(v) ==
    Make("new_mut", NoHandle, Handle("MutVertex", v, NoEdge, "none"))

NewEditor(v) ==
    IF CanBorrowMut
    THEN Make("new_mut", NoHandle, Handle("MutVertex", v, NoEdge, "none"))
    ELSE Refuse("new_mut", NoHandle, "ExclusivityViolation")

----------------------------------------------------------------------------
\* nav_types: every method takes &self and returns a value of lifetime 'a.

IsNav(h, kind) == h.st = "live" /\ h.kind = kind

\* Vertex::data(&self) -> &'a VertexData
nav_Vertex_data_Elided(h) ==
    /\ IsNav(h, "NavVertex")
    /\ Lend("nav_data", h, Ref("handle", h, FALSE, h.v, NoEdge, vdata[h.v]))

nav_Vertex_data(h) ==
    /\ IsNav(h, "NavVertex")
    /\ Lend("nav_data", h, Ref("graph", NoHandle, FALSE, h.v, NoEdge, vdata[h.v]))

\* Vertex::out_edges(&self) -> NavOutEdgeCollection
nav_Vertex_out_edges(h) ==
    /\ IsNav(h, "NavVertex")
    /\ Make("nav_out_edges", h, Handle("NavOut", h.v, NoEdge, "out"))

\* Vertex::in_edges(&self) -> NavInEdgeCollection
nav_Vertex_in_edges(h) ==
    /\ IsNav(h, "NavVertex")
    /\ Make("nav_in_edges", h, Handle("NavIn", h.v, NoEdge, "in"))

\* Edge::data(&self) -> &'a EdgeData
nav_Edge_data(h) ==
    /\ IsNav(h, "NavEdge")
    /\ Lend("nav_edge_data", h, Ref("graph", NoHandle, FALSE, 0, h.e, edata[h.e]))

\* Edge::source(&self) -> NavVertex
nav_Edge_source_Swapped(h) ==
    /\ IsNav(h, "NavEdge")
    /\ Make("source", h, Handle("NavVertex", h.e[2], NoEdge, "none"))

nav_Edge_source(h) ==
    /\ IsNav(h, "NavEdge")
    /\ Make("source", h, Handle("NavVertex", h.e[1], NoEdge, "none"))

\* Edge::target(&self) -> NavVertex
nav_Edge_target(h) ==
    /\ IsNav(h, "NavEdge")
    /\ Make("target", h, Handle("NavVertex", h.e[2], NoEdge, "none"))

\* InEdgeCollection::len(&self), OutEdgeCollection::len(&self)
nav_Collection_len(h) ==
    \/ /\ IsNav(h, "NavIn")
       /\ Return("len", h, InEdgeCollection_len(h), FALSE)
    \/ /\ IsNav(h, "NavOut")
       /\ Return("len", h, OutEdgeCollection_len(h), FALSE)

\* InEdgeCollection::is_empty(&self), OutEdgeCollection::is_empty(&self)
nav_Collection_is_empty(h) ==
    \/ /\ IsNav(h, "NavIn")
       /\ Return("is_empty", h, 0, InEdgeCollection_is_empty(h))
    \/ /\ IsNav(h, "NavOut")
       /\ Return("is_empty", h, 0, OutEdgeCollection_is_empty(h))

\* InEdgeCollection::target(&self), OutEdgeCollection::source(&self): the vertex
\* the collection belongs to.
nav_Collection_vertex(h) ==
    \/ /\ IsNav(h, "NavIn")
       /\ Make("coll_target", h, Handle("NavVertex", h.v, NoEdge, "none"))
    \/ /\ IsNav(h, "NavOut")
       /\ Make("coll_source", h, Handle("NavVertex", h.v, NoEdge, "none"))

\* InEdgeCollection::iter(&self), OutEdgeCollection::iter(&self) -> Self::Iter
nav_Collection_iter(h) ==
    /\ h.st = "live" /\ h.kind \in {"NavIn", "NavOut"}
    /\ Make("iter", h, Handle("NavIter", h.v, NoEdge, h.dir))

\* Whether the iterator it has an edge left to yield.
HasNext_OffByOne(it) == it.pos + 1 < Len(EdgesOf(it))
HasNext(it) == it.pos < Len(EdgesOf(it))

\* Iterator::next(&mut self) of a collection's Iter: the next Edge, or None.
Iter_next(h) ==
    /\ IsNav(h, "NavIter")
    /\ IF HasNext(h)
       THEN LET it == [h EXCEPT !.pos = @ + 1]
                e == Handle("NavEdge", h.v, EdgesOf(h)[h.pos + 1], h.dir)
            IN /\ RoomForHandle
               /\ handles' = Add(Add(Remove(handles, h), it), e)
               /\ last' = Outcome("next", it, "ok", e, 0, TRUE)
       ELSE /\ handles' = handles
            /\ last' = Outcome("next", h, "ok", NoHandle, 0, FALSE)
    /\ UNCHANGED <<edges, edata, vdata, refs>>

----------------------------------------------------------------------------
\* mut_types::Vertex.

IsMutVertex(h) == h.kind = "MutVertex"
AsMoved(h) == [h EXCEPT !.st = "moved"]

\* Vertex::data(&self) -> &VertexData: the reference borrows the handle.
mut_Vertex_data(h) ==
    /\ IsMutVertex(h)
    /\ IF h.st = "moved" THEN Refuse("mut_data", h, "InvalidHandle")
       ELSE IF MutBorrowsOf(h) /= {} THEN Refuse("mut_data", h, "BorrowError")
       ELSE Lend("mut_data", h, Ref("handle", h, FALSE, h.v, NoEdge, vdata[h.v]))

\* Vertex::data_mut(&mut self) -> &mut VertexData: the reference borrows the
\* handle mutably.
mut_Vertex_data_mut(h) ==
    /\ IsMutVertex(h)
    /\ IF h.st = "moved" THEN Refuse("data_mut", h, "InvalidHandle")
       ELSE IF BorrowsOf(h) /= {} THEN Refuse("data_mut", h, "BorrowError")
       ELSE Lend("data_mut", h, Ref("handle", h, TRUE, h.v, NoEdge, vdata[h.v]))

\* A conversion of the Vertex h into a collection handle; left is what is left of h.
Convert(op, h, kind, dir, left) ==
    /\ IsMutVertex(h)
    /\ IF h.st = "moved" THEN Refuse(op, h, "InvalidHandle")
       ELSE IF BorrowsOf(h) /= {} THEN Refuse(op, h, "BorrowError")
       ELSE LET c == Handle(kind, h.v, NoEdge, dir)
            IN /\ RoomForHandle
               /\ handles' = Add(Add(Remove(handles, h), left), c)
               /\ last' = Outcome(op, h, "ok", c, 0, FALSE)
               /\ UNCHANGED <<edges, edata, vdata, refs>>

\* Vertex::to_out_edges(self) -> MutOutEdgeCollection: consumes self.
mut_Vertex_to_out_edges_ByRef(h) == Convert("to_out_edges", h, "MutOut", "out", h)
mut_Vertex_to_out_edges(h) == Convert("to_out_edges", h, "MutOut", "out", AsMoved(h))

\* Vertex::to_in_edges(self) -> MutInEdgeCollection: consumes self.
mut_Vertex_to_in_edges(h) == Convert("to_in_edges", h, "MutIn", "in", AsMoved(h))

\* Vertex::out_edges(&self): returns nothing.
mut_Vertex_out_edges(h) ==
    /\ IsMutVertex(h)
    /\ IF h.st = "moved" THEN Refuse("mut_out_edges", h, "InvalidHandle")
       ELSE IF MutBorrowsOf(h) /= {} THEN Refuse("mut_out_edges", h, "BorrowError")
       ELSE Return("mut_out_edges", h, 0, FALSE)

----------------------------------------------------------------------------
\* The ends of handles and references, and the use of references.

\* The handle h is gone.
Gone(op, h) ==
    /\ handles' = Remove(handles, h)
    /\ last' = Outcome(op, NoHandle, "ok", NoHandle, 0, FALSE)
    /\ UNCHANGED <<edges, edata, vdata, refs>>

\* A Navigator handle is dropped; a handle may not be dropped while borrowed.
DropNav(h) ==
    /\ h.st = "live" /\ h.kind \in NavKinds
    /\ IF BorrowsOf(h) /= {} THEN Refuse("drop_nav", h, "BorrowError")
       ELSE Gone("drop_nav", h)

\* An Editor handle is dropped, or the binding of a moved one leaves its scope.
DropMut(h) ==
    /\ h.kind \in MutKinds
    /\ IF h.st = "live" /\ BorrowsOf(h) /= {} THEN Refuse("drop_mut", h, "BorrowError")
       ELSE Gone("drop_mut", h)

\* The payload the reference r points at.
Payload(r) == IF r.tv /= 0 THEN vdata[r.tv] ELSE edata[r.te]

\* The reference r is read.
RefRead(r) == Return("read", r, Payload(r), FALSE)

\* x is written through the mutable reference r.
RefWrite(r, x) ==
    /\ r.mut
    /\ vdata' = [vdata EXCEPT ![r.tv] = x]
    /\ refs' = Add(Remove(refs, r), [r EXCEPT !.seen = x])
    /\ last' = Outcome("write", r, "ok", NoHandle, x, FALSE)
    /\ UNCHANGED <<edges, edata, handles>>

\* The reference r is released.
RefRelease(r) ==
    /\ refs' = Remove(refs, r)
    /\ last' = Outcome("release", NoHandle, "ok", NoHandle, 0, FALSE)
    /\ UNCHANGED <<edges, edata, vdata, handles>>

----------------------------------------------------------------------------
Next ==
    \/ \E v \in Vertices : NewNavigator(v)
    \/ \E v \in Vertices : NewEditor(v)
    \/ \E h \in Held : nav_Vertex_data(h)
    \/ \E h \in Held : nav_Vertex_out_edges(h)
    \/ \E h \in Held : nav_Vertex_in_edges(h)
    \/ \E h \in Held : nav_Edge_data(h)
    \/ \E h \in Held : nav_Edge_source(h)
    \/ \E h \in Held : nav_Edge_target(h)
    \/ \E h \in Held : nav_Collection_len(h)
    \/ \E h \in Held : nav_Collection_is_empty(h)
    \/ \E h \in Held : nav_Collection_vertex(h)
    \/ \E h \in Held : nav_Collection_iter(h)
    \/ \E h \in Held : Iter_next(h)
    \/ \E h \in Held : mut_Vertex_data(h)
    \/ \E h \in Held : mut_Vertex_data_mut(h)
    \/ \E h \in Held : mut_Vertex_to_out_edges(h)
    \/ \E h \in Held : mut_Vertex_to_in_edges(h)
    \/ \E h \in Held : mut_Vertex_out_edges(h)
    \/ \E h \in Held : DropNav(h)
    \/ \E h \in Held : DropMut(h)
    \/ \E r \in HeldRefs : RefRead(r)
    \/ \E r \in HeldRefs, x \in Values : RefWrite(r, x)
    \/ \E r \in HeldRefs : RefRelease(r)

Spec == Init /\ [][Next]_vars

\* The structural navigation of nav_types on a graph nobody edits.
NextNav ==
    \/ \E v \in Vertices : NewNavigator(v)
    \/ \E h \in Held : nav_Vertex_out_edges(h)
    \/ \E h \in Held : nav_Vertex_in_edges(h)
    \/ \E h \in Held : nav_Edge_source(h)
    \/ \E h \in Held : nav_Edge_target(h)
    \/ \E h \in Held : nav_Collection_len(h)
    \/ \E h \in Held : nav_Collection_is_empty(h)
    \/ \E h \in Held : nav_Collection_vertex(h)
    \/ \E h \in Held : nav_Collection_iter(h)
    \/ \E h \in Held : Iter_next(h)
    \/ \E h \in Held : DropNav(h)

SpecNav == InitNav /\ [][NextNav]_vars

----------------------------------------------------------------------------
\* What the claims speak of.

\* The bag of the live handles of the kinds K.
LiveOf(K) == [h \in {x \in Held : x.st = "live" /\ x.kind \in K} |-> handles[h]]
NumLiveEditors == BagCardinality(LiveOf(MutKinds))
NumLiveNavigators == BagCardinality(LiveOf(NavKinds))

----------------------------------------------------------------------------
\* C1: at most one Editor handle (Vertex, InEdgeCollection, OutEdgeCollection of
\* mut_types) is live at any moment, and an attempt to construct an Editor handle
\* while one is live ends ExclusivityViolation and creates no handle.
C1_Step ==
    /\ NumLiveEditors' <= 1
    /\ (MutBorrowed /\ last'.op = "new_mut") =>
          /\ last'.res = "ExclusivityViolation"
          /\ handles' = handles
          /\ refs' = refs

\* C1: every step keeps at most one Editor handle live and refuses a second
\* Editor with ExclusivityViolation, creating nothing.
C1_AtMostOneEditor == [][C1_Step]_vars

\* A second Editor was asked for while one was live, and refused.
C1_Witness ==
    /\ NumLiveEditors = 1
    /\ last.op = "new_mut"
    /\ last.res = "ExclusivityViolation"

----------------------------------------------------------------------------
\* C2: Navigator handles and the handles derived from them may be live together in
\* any number (a Navigator is never refused beside other Navigators), and no
\* Navigator handle or Navigator reference is live while an Editor handle is.
NavigatorOps ==
    {"new_nav", "nav_data", "nav_out_edges", "nav_in_edges", "nav_edge_data",
     "source", "target", "len", "is_empty", "coll_source", "coll_target", "iter",
     "next"}

C2_Step ==
    /\ ~(MutBorrowed' /\ SharedBorrowed')
    /\ (~MutBorrowed /\ last'.op \in NavigatorOps) => last'.res = "ok"

\* C2: every step lets Navigators share the graph and keeps them apart from an
\* Editor.
C2_NavigatorsShareNotWithEditor == [][C2_Step]_vars

\* An iterator and an edge it yielded are live together, beside a reference.
C2_Witness ==
    /\ NumLiveNavigators = MaxHandles
    /\ \E h \in Held : h.kind = "NavIter"
    /\ \E h \in Held : h.kind = "NavEdge"
    /\ refs /= EmptyBag

----------------------------------------------------------------------------
\* C3: to_out_edges and to_in_edges are one step that leaves the Vertex moved out
\* of and the returned collection the only live Editor handle; every later use of
\* the Vertex ends InvalidHandle.
EditorVertexOps ==
    {"mut_data", "data_mut", "to_out_edges", "to_in_edges", "mut_out_edges"}

C3_Step ==
    /\ (last'.op \in {"to_out_edges", "to_in_edges"} /\ last'.res = "ok") =>
          /\ last'.h.st = "live" /\ BagIn(last'.h, handles)
          /\ ~BagIn(last'.h, handles')
          /\ BagIn(AsMoved(last'.h), handles')
          /\ last'.out.kind = (IF last'.op = "to_out_edges" THEN "MutOut" ELSE "MutIn")
          /\ LiveOf(MutKinds)' = SetToBag({last'.out})
    /\ (last'.op \in EditorVertexOps /\ last'.h.st = "moved") =>
          last'.res = "InvalidHandle"

\* C3: every to_out_edges or to_in_edges step consumes the Vertex and leaves the
\* collection the one live Editor handle; a moved Vertex is an InvalidHandle.
C3_ConversionConsumes == [][C3_Step]_vars

\* The consumed Vertex was used beside the collection it turned into.
C3_Witness ==
    /\ last.op = "data_mut"
    /\ last.h.st = "moved"
    /\ last.res = "InvalidHandle"
    /\ \E c \in Held : c.st = "live" /\ c.kind = "MutOut" /\ c.v = last.h.v

----------------------------------------------------------------------------
\* C4: out_edges() on an Editor Vertex derives a Navigator view of its outgoing
\* edges, which is live and readable after the call (and holds the Editor off
\* until it is released).
C4_OutEdgesDerivesView ==
    (last.op = "mut_out_edges" /\ last.res = "ok") =>
        /\ last.out.kind = "NavOut"
        /\ BagIn(last.out, handles)

----------------------------------------------------------------------------
\* What len() returns on the collection, or on the collection of the iterator, c.
CollectionLen(c) ==
    IF c.dir = "in" THEN InEdgeCollection_len(c) ELSE OutEdgeCollection_len(c)

\* C6: on a graph nobody edits, the iteration of a Navigator collection whose
\* len() is n is finite and yields exactly n Edge values: an iterator has never
\* yielded more than n, and next() returns None exactly when it has yielded n.
C6_IterYieldsLen ==
    /\ \A it \in Held : it.kind = "NavIter" => it.pos <= CollectionLen(it)
    /\ last.op = "next" =>
          IF last.out = NoHandle
          THEN last.h.pos = CollectionLen(last.h)
          ELSE /\ last.out.kind = "NavEdge"
               /\ last.out.e \in edges
               /\ last.h.pos <= CollectionLen(last.h)

\* The out-edges of a vertex that has two were iterated to the end.
C6_Witness ==
    /\ last.op = "next"
    /\ last.out = NoHandle
    /\ last.h.dir = "out"
    /\ last.h.pos = 2
    /\ OutEdgeCollection_len(last.h) = 2

----------------------------------------------------------------------------
\* C7: is_empty() of a Navigator InEdgeCollection or OutEdgeCollection returns
\* true if and only if its len() is 0.
C7_IsEmptyIffLenZero ==
    last.op = "is_empty" => (last.b <=> (CollectionLen(last.h) = 0))

\* is_empty() was asked of an InEdgeCollection that has an edge.
C7_Witness ==
    /\ last.op = "is_empty"
    /\ last.h.kind = "NavIn"
    /\ InEdgeCollection_len(last.h) > 0
    /\ ~last.b

----------------------------------------------------------------------------
\* The graph of vertices A = 1, B = 2, C = 3 and edges A -> B, A -> C.
ScenarioGraph == {<<1, 2>>, <<1, 3>>}

\* C8: source() of an Edge that the iteration of v.out_edges() yielded is a
\* Navigator Vertex on v itself; and in the graph A -> B, A -> C, B.in_edges() has
\* len() 1 and the source() of its edge is A.
C8_SourceIsOrigin ==
    /\ (last.op = "source" /\ last.h.dir = "out") =>
          /\ last.out.kind = "NavVertex"
          /\ last.out.v = last.h.v
          /\ vdata[last.out.v] = vdata[last.h.v]
    /\ (edges = ScenarioGraph /\ last.op = "source" /\ last.h.dir = "in" /\ last.h.v = 2) =>
          last.out.v = 1
    /\ (edges = ScenarioGraph /\ last.op = "len" /\ last.h.kind = "NavIn" /\ last.h.v = 2) =>
          last.n = 1

\* In the graph A -> B, A -> C, source() was asked of the edge A -> C that
\* A.out_edges() yielded.
C8_Witness ==
    /\ edges = ScenarioGraph
    /\ last.op = "source"
    /\ last.h.dir = "out"
    /\ last.h.e = <<1, 3>>
    /\ last.out.v = 1

\* In the same graph, source() was asked of the one edge of B.in_edges().
C8_ScenarioReached ==
    /\ edges = ScenarioGraph
    /\ last.op = "source"
    /\ last.h.dir = "in"
    /\ last.h.v = 2
    /\ last.out.v = 1

----------------------------------------------------------------------------
\* The references of lifetime 'a: those Navigator handles hand out.
NavRefs == {r \in HeldRefs : r.scope = "graph"}

----------------------------------------------------------------------------
\* Every reference held is valid: one of lifetime 'a shows the payload the graph
\* holds; one that borrows an Editor Vertex has that Vertex live, and a mutable
\* one is the only borrow of it.
RefsValid ==
    \A r \in HeldRefs :
        /\ r.scope = "graph" => r.seen = Payload(r)
        /\ r.scope = "handle" =>
              /\ r.from.kind = "MutVertex"
              /\ r.from.st = "live"
              /\ BagIn(r.from, handles)
              /\ r.mut => (BorrowsOf(r.from) = {r} /\ CopiesIn(r, refs) = 1)

\* C10: a reference from a Navigator Vertex.data() outlives the handle (the handle
\* can always be dropped, and the reference stays and stays valid), while a
\* reference from an Editor Vertex.data() or data_mut() is held only while that
\* Editor handle is live, a mutable one beside no other borrow of it.
C10_Step ==
    /\ last'.op = "drop_nav" => (last'.res = "ok" /\ refs' = refs)
    /\ RefsValid'

\* C10: every step leaves a Navigator reference valid without its handle, and an
\* Editor reference held only under its live, not otherwise borrowed, handle.
C10_ReferenceValidity == [][C10_Step]_vars

\* The Navigator handle was dropped and the vertex reference it gave is still held.
C10_Witness ==
    /\ last.op = "drop_nav"
    /\ NumLiveNavigators = 0
    /\ \E r \in NavRefs : r.tv /= 0 /\ r.seen = Payload(r)

====
